---- MODULE Spec2Model ----
(***************************************************************************)
(* Model of src/descriptor/mod.rs of the Magical Bitcoin wallet library:   *)
(* the conversion of descriptor sources into wallet descriptors            *)
(* (IntoWalletDescriptor, into_wallet_descriptor_checked) and the recovery *)
(* of the derivation index of a PSBT input (derive_from_hd_keypaths,       *)
(* derive_from_psbt_input, get_hd_keypaths).                               *)
(*                                                                         *)
(* Keys, scripts and strings are abstract values:                          *)
(*  - a child number is [hardened, index];                                 *)
(*  - an extended key is [id, network]; its fingerprint is its id;         *)
(*  - the public key derived from an extended key along a path is the pair *)
(*    <<id, path>> (BIP32 derivation taken as injective);                  *)
(*  - a script is a tuple naming its template and its public keys;         *)
(*  - a string is a sequence of tokens, one of them the character '#'.     *)
(***************************************************************************)
EXTENDS Integers, Sequences, FiniteSets, TLC

VARIABLES op, args, ret

vars == <<op, args, ret>>

(***************************************************************************)
(* Bounds of the model.                                                    *)
(***************************************************************************)
\* largest number of keys of a descriptor
MaxKeys == 2

\* largest derivation index of the evidence and of the fixed keys
MaxIndex == 1

\* largest number of entries of an HD key-path table
MaxTable == 2

-----------------------------------------------------------------------------
(***************************************************************************)
(* bitcoin::Network, bip32::ChildNumber, DescriptorPublicKey, Descriptor   *)
(***************************************************************************)
Networks == {"Bitcoin", "Testnet", "Regtest"}

Normal(i) == [hardened |-> FALSE, index |-> i]

Hardened(i) == [hardened |-> TRUE, index |-> i]

is_hardened(c) == c.hardened

NoOrigin == [present |-> FALSE, fingerprint |-> 0, path |-> <<>>]

Origin(f, p) == [present |-> TRUE, fingerprint |-> f, path |-> p]

XKey(id, network) == [id |-> id, network |-> network]

\* DescriptorPublicKey::XPub(DescriptorXKey { origin, xkey, derivation_path, wildcard })
XPub(origin, xkey, path, wildcard) ==
    [kind |-> "XPub", origin |-> origin, xkey |-> xkey,
     derivation_path |-> path, wildcard |-> wildcard]

\* DescriptorPublicKey::SinglePub
SinglePub(pk) == [kind |-> "SinglePub", pk |-> pk]

DescriptorTypes ==
    {"Bare", "Sh", "Pkh", "Wpkh", "Wsh", "ShWsh", "ShWpkh",
     "ShSortedMulti", "WshSortedMulti", "ShWshSortedMulti"}

\* the descriptor types that hold exactly one key
SingleKeyTypes == {"Pkh", "Wpkh", "ShWpkh"}

Descriptor(ty, keys) == [desc_type |-> ty, keys |-> keys]

NoDescriptor == [desc_type |-> "None", keys |-> <<>>]

WellFormed(d) ==
    /\ d.desc_type \in DescriptorTypes
    /\ Len(d.keys) >= 1
    /\ d.desc_type \in SingleKeyTypes => Len(d.keys) = 1

\* ExtendedPubKey::fingerprint: the identifier of the key, whatever its network tag
xkey_fingerprint(xkey) == xkey.id

\* ForEachKey::for_any_key: true iff the predicate holds of some key
for_any_key(d, pred(_)) == \E i \in 1..Len(d.keys) : pred(d.keys[i])

\* Descriptor::is_deriveable: some key has a wildcard
is_deriveable(d) == for_any_key(d, LAMBDA k : k.kind = "XPub" /\ k.wildcard # "None")

-----------------------------------------------------------------------------
(***************************************************************************)
(* Results                                                                 *)
(***************************************************************************)
Ok(d, km) == [ok |-> TRUE, err |-> "", descriptor |-> d, keymap |-> km]

Err(e) == [ok |-> FALSE, err |-> e, descriptor |-> NoDescriptor, keymap |-> {}]

-----------------------------------------------------------------------------
(***************************************************************************)
(* Strings: sequences of tokens.  A descriptor string is a type token      *)
(* followed by its key tokens; a key token written with private material   *)
(* (tprv, WIF) is marked secret.                                           *)
(***************************************************************************)
HashChar == [t |-> "#"]

JunkChar == [t |-> "junk"]

\* a character outside the input charset of the checksum
BadChar == [t |-> "badchar"]

TypeTok(ty) == [t |-> "type", v |-> ty]

\* the version bytes an extended key is written with: one prefix for
\* mainnet, one shared by all the test networks
version_bytes(network) == IF network = "Bitcoin" THEN "xpub" ELSE "tpub"

\* the network an extended key is read with from its version bytes
network_of_version(version) == IF version = "xpub" THEN "Bitcoin" ELSE "Testnet"

\* DescriptorPublicKey::to_string
key_to_string(k) ==
    IF k.kind = "XPub"
    THEN [k EXCEPT !.xkey.network = version_bytes(@)]
    ELSE k

\* DescriptorPublicKey::from_str
key_from_str(v) ==
    IF v.kind = "XPub"
    THEN [v EXCEPT !.xkey.network = network_of_version(@)]
    ELSE v

KeyTok(k, secret) == [t |-> "key", v |-> key_to_string(k), secret |-> secret]

\* str::contains('#')
contains_hash(s) == \E i \in 1..Len(s) : s[i] = HashChar

\* str::splitn(2, '#'): the text before the first '#' and the text after it
splitn2(s) ==
    LET i == CHOOSE j \in 1..Len(s) :
                 /\ s[j] = HashChar
                 /\ \A m \in 1..(j - 1) : s[m] # HashChar
    IN  <<SubSeq(s, 1, i - 1), SubSeq(s, i + 1, Len(s))>>

\* checksum::get_checksum: fails on a character outside the charset, else
\* yields a checksum, which holds no '#'
get_checksum(s) ==
    IF \E i \in 1..Len(s) : s[i] = BadChar
    THEN [ok |-> FALSE, value |-> <<>>]
    ELSE [ok |-> TRUE, value |-> <<[t |-> "ck", of |-> s]>>]

is_key_tok(c) == c.t = "key"

\* Descriptor::parse_descriptor: the descriptor of the string and the map of
\* the keys written with private material, or a parse error
parse_descriptor(s) ==
    IF /\ Len(s) >= 2
       /\ s[1].t = "type"
       /\ \A i \in 2..Len(s) : is_key_tok(s[i])
       /\ WellFormed(Descriptor(s[1].v, [i \in 1..(Len(s) - 1) |-> key_from_str(s[i + 1].v)]))
    THEN Ok(Descriptor(s[1].v, [i \in 1..(Len(s) - 1) |-> key_from_str(s[i + 1].v)]),
            {key_from_str(s[i].v) : i \in {j \in 2..Len(s) : s[j].secret}})
    ELSE Err("Miniscript")

-----------------------------------------------------------------------------
(***************************************************************************)
(* IntoWalletDescriptor                                                    *)
(***************************************************************************)
\* keys::IntoDescriptorKey for DescriptorPublicKey followed by
\* DescriptorKey::extract: the key itself, no private material, and the
\* networks it is valid for (a single key: any; an extended key: mainnet
\* when tagged Bitcoin, the test networks otherwise)
extract(pk) ==
    [key |-> pk,
     keymap |-> {},
     networks |-> IF pk.kind = "XPub"
                  THEN IF pk.xkey.network = "Bitcoin"
                       THEN {"Bitcoin"}
                       ELSE Networks \ {"Bitcoin"}
                  ELSE Networks]

KeyOk(k) == [ok |-> TRUE, err |-> "", key |-> k]

KeyErr(e) == [ok |-> FALSE, err |-> e, key |-> SinglePub(0)]

\* TranslatePk::translate_pk: every key translated in order; the error of
\* the first key that fails, if one does
translate_pk(d, f(_)) ==
    IF \E i \in 1..Len(d.keys) : ~f(d.keys[i]).ok
    THEN LET i == CHOOSE j \in 1..Len(d.keys) :
                      /\ ~f(d.keys[j]).ok
                      /\ \A m \in 1..(j - 1) : f(d.keys[m]).ok
         IN  [ok |-> FALSE, err |-> f(d.keys[i]).err, descriptor |-> NoDescriptor]
    ELSE [ok |-> TRUE, err |-> "",
          descriptor |-> Descriptor(d.desc_type,
                                    [i \in 1..Len(d.keys) |-> f(d.keys[i]).key])]

\* DescriptorMeta::is_witness
is_witness(d) ==
    d.desc_type \in {"Wpkh", "ShWpkh", "Wsh", "ShWsh", "ShWshSortedMulti", "WshSortedMulti"}

\* the closure check_key of impl IntoWalletDescriptor for (ExtendedDescriptor, KeyMap)
check_key(d, pk, network) ==
    LET e == IF is_witness(d) THEN extract(pk) ELSE extract(pk)
    IN  IF network \in e.networks
        THEN KeyOk(e.key)
        ELSE KeyErr("Key(InvalidNetwork)")

\* into_wallet_descriptor_pair checking the first key only
into_wallet_descriptor_pair_first_key(d, keymap, network) ==
    IF check_key(d, d.keys[1], network).ok
    THEN Ok(d, keymap)
    ELSE Err("Key(InvalidNetwork)")

\* impl IntoWalletDescriptor for (ExtendedDescriptor, KeyMap)
into_wallet_descriptor_pair(d, keymap, network) ==
    LET translated == translate_pk(d, LAMBDA pk : check_key(d, pk, network))
    IN  IF translated.ok
        THEN Ok(translated.descriptor, keymap)
        ELSE Err(translated.err)

\* impl IntoWalletDescriptor for ExtendedDescriptor
into_wallet_descriptor_desc(d, network) ==
    into_wallet_descriptor_pair(d, {}, network)

\* into_wallet_descriptor_str parsing before it verifies the checksum
into_wallet_descriptor_str_parse_first(self, network) ==
    LET has      == contains_hash(self)
        parts    == IF has THEN splitn2(self) ELSE <<self, <<>>>>
        computed == get_checksum(parts[1])
        parsed   == parse_descriptor(parts[1])
    IN  IF ~parsed.ok
        THEN parsed
        ELSE IF has /\ ~(computed.ok /\ computed.value = parts[2])
             THEN Err("InvalidDescriptorChecksum")
             ELSE into_wallet_descriptor_pair(parsed.descriptor, parsed.keymap, network)

\* into_wallet_descriptor_str parsing the whole string, suffix included
into_wallet_descriptor_str_keep_suffix(self, network) ==
    LET has      == contains_hash(self)
        parts    == IF has THEN splitn2(self) ELSE <<self, <<>>>>
        computed == get_checksum(parts[1])
    IN  IF has /\ ~(computed.ok /\ computed.value = parts[2])
        THEN Err("InvalidDescriptorChecksum")
        ELSE LET parsed == parse_descriptor(self)
             IN  IF ~parsed.ok
                 THEN parsed
                 ELSE into_wallet_descriptor_pair(parsed.descriptor, parsed.keymap, network)

\* impl IntoWalletDescriptor for &str
into_wallet_descriptor_str(self, network) ==
    LET has      == contains_hash(self)
        parts    == IF has THEN splitn2(self) ELSE <<self, <<>>>>
        computed == get_checksum(parts[1])
    IN  IF has /\ ~(computed.ok /\ computed.value = parts[2])
        THEN Err("InvalidDescriptorChecksum")
        ELSE LET parsed == parse_descriptor(parts[1])
             IN  IF ~parsed.ok
                 THEN parsed
                 ELSE into_wallet_descriptor_pair(parsed.descriptor, parsed.keymap, network)

\* fix_key that leaves the network tag of the key as it is
fix_key_keep_tag(valid_networks, pk, network) ==
    IF network \in valid_networks
    THEN KeyOk(pk)
    ELSE KeyErr("Key(InvalidNetwork)")

\* the closure fix_key of impl IntoWalletDescriptor for DescriptorTemplateOut
fix_key(valid_networks, pk, network) ==
    IF network \in valid_networks
    THEN IF pk.kind = "XPub"
         THEN KeyOk([pk EXCEPT !.xkey.network = network])
         ELSE KeyOk(pk)
    ELSE KeyErr("Key(InvalidNetwork)")

\* impl IntoWalletDescriptor for DescriptorTemplateOut
into_wallet_descriptor_template(d, keymap, valid_networks, network) ==
    LET translated == translate_pk(d, LAMBDA pk : fix_key(valid_networks, pk, network))
    IN  IF translated.ok
        THEN Ok(translated.descriptor, keymap)
        ELSE Err(translated.err)

\* the sources of a wallet descriptor
StrSource(s) == [kind |-> "str", str |-> s]

DescSource(d) == [kind |-> "descriptor", descriptor |-> d]

PairSource(d, km) == [kind |-> "pair", descriptor |-> d, keymap |-> km]

TemplateSource(d, km, nets) ==
    [kind |-> "template", descriptor |-> d, keymap |-> km, networks |-> nets]

\* IntoWalletDescriptor::into_wallet_descriptor, dispatched on the source's type
into_wallet_descriptor(inner, network) ==
    CASE inner.kind = "str" -> into_wallet_descriptor_str(inner.str, network)
      [] inner.kind = "descriptor" -> into_wallet_descriptor_desc(inner.descriptor, network)
      [] inner.kind = "pair" ->
             into_wallet_descriptor_pair(inner.descriptor, inner.keymap, network)
      [] inner.kind = "template" ->
             into_wallet_descriptor_template(inner.descriptor, inner.keymap,
                                             inner.networks, network)

\* key_contains_hardened_steps with the scan of the derivation path left out
key_contains_hardened_steps_wildcard_only(k) ==
    IF k.kind = "XPub" THEN k.wildcard = "Hardened" ELSE FALSE

\* the closure of into_wallet_descriptor_checked: the key has a hardened
\* wildcard or a hardened step in its derivation path
key_contains_hardened_steps(k) ==
    IF k.kind = "XPub"
    THEN \/ k.wildcard = "Hardened"
         \/ \E i \in 1..Len(k.derivation_path) : is_hardened(k.derivation_path[i])
    ELSE FALSE

\* into_wallet_descriptor_checked
into_wallet_descriptor_checked(inner, network) ==
    LET r == into_wallet_descriptor(inner, network)
    IN  IF ~r.ok
        THEN r
        ELSE IF for_any_key(r.descriptor, key_contains_hardened_steps)
             THEN Err("HardenedDerivationXpub")
             ELSE Ok(r.descriptor, r.keymap)

-----------------------------------------------------------------------------
(***************************************************************************)
(* Inputs of the conversions                                               *)
(***************************************************************************)
\* the origin [1/0']: a key exported from the root of fingerprint 1 at 0'
Origin1 == Origin(1, <<Hardened(0)>>)

SourceKeys ==
    { SinglePub(1),
      XPub(NoOrigin, XKey(1, "Testnet"), <<Normal(0)>>, "Unhardened"),
      XPub(NoOrigin, XKey(1, "Bitcoin"), <<Normal(0)>>, "Unhardened"),
      XPub(NoOrigin, XKey(1, "Testnet"), <<Hardened(0), Normal(1)>>, "Unhardened"),
      XPub(NoOrigin, XKey(1, "Testnet"), <<Normal(0)>>, "Hardened"),
      XPub(Origin1, XKey(2, "Testnet"), <<>>, "None") }

SourceTypes == {"Pkh", "Wpkh", "Sh", "Wsh"}

KeyLists(keys) == UNION { [1..n -> keys] : n \in 1..MaxKeys }

SourceDescriptors ==
    { d \in { Descriptor(ty, ks) : ty \in SourceTypes, ks \in KeyLists(SourceKeys) } :
        WellFormed(d) }

\* Descriptor::to_string without the checksum; with secret, every key is
\* written with its private material
DescriptorString(d, secret) ==
    <<TypeTok(d.desc_type)>> \o [i \in 1..Len(d.keys) |-> KeyTok(d.keys[i], secret)]

\* the descriptor bodies: strings of descriptors, strings that do not
\* parse, a string with a character the checksum rejects, strings with '#'
SourceBodies ==
    { DescriptorString(d, secret) : d \in SourceDescriptors, secret \in BOOLEAN }
      \cup { <<JunkChar>>, <<TypeTok("Wpkh")>>, <<BadChar>>,
             <<JunkChar, HashChar, JunkChar>> }

ChecksumOf(d) == get_checksum(d).value

\* the suffixes tried after d '#': none, the checksum of d, the checksum of
\* another string, the empty suffix, and suffixes that hold a '#'
Suffixes(d) ==
    { ChecksumOf(d), ChecksumOf(<<JunkChar, JunkChar>>), <<>>,
      ChecksumOf(d) \o <<HashChar>>, ChecksumOf(d) \o <<HashChar>> \o ChecksumOf(d) }

KeyMaps(d) == { {}, {d.keys[1]} }

NetworkSets == { Networks, {"Bitcoin"}, Networks \ {"Bitcoin"} }

Sources ==
    { [kind |-> "str", str |-> d, d |-> d, suffixed |-> FALSE, suffix |-> <<>>] :
        d \in SourceBodies }
      \cup UNION { { [kind |-> "str", str |-> d \o <<HashChar>> \o s, d |-> d,
                      suffixed |-> TRUE, suffix |-> s] : s \in Suffixes(d) } :
                   d \in SourceBodies }
      \cup { DescSource(d) : d \in SourceDescriptors }
      \cup UNION { { PairSource(d, km) : km \in KeyMaps(d) } : d \in SourceDescriptors }
      \cup UNION { { TemplateSource(d, km, nets) : km \in KeyMaps(d), nets \in NetworkSets } :
                   d \in SourceDescriptors }

-----------------------------------------------------------------------------
(***************************************************************************)
(* The conversions as operations of a caller: a call runs from the idle    *)
(* state, Return takes the result.                                         *)
(***************************************************************************)
NoArgs == [none |-> TRUE]

Init ==
    /\ op = "idle"
    /\ args = NoArgs
    /\ ret = NoArgs

Return ==
    /\ op # "idle"
    /\ op' = "idle"
    /\ args' = NoArgs
    /\ ret' = NoArgs

IntoWalletDescriptorStr ==
    /\ op = "idle"
    /\ \E inner \in { x \in Sources : x.kind = "str" }, network \in Networks :
           /\ op' = "into_wallet_descriptor"
           /\ args' = [inner |-> inner, network |-> network]
           /\ ret' = into_wallet_descriptor(inner, network)

IntoWalletDescriptorDesc ==
    /\ op = "idle"
    /\ \E inner \in { x \in Sources : x.kind = "descriptor" }, network \in Networks :
           /\ op' = "into_wallet_descriptor"
           /\ args' = [inner |-> inner, network |-> network]
           /\ ret' = into_wallet_descriptor(inner, network)

IntoWalletDescriptorPair ==
    /\ op = "idle"
    /\ \E inner \in { x \in Sources : x.kind = "pair" }, network \in Networks :
           /\ op' = "into_wallet_descriptor"
           /\ args' = [inner |-> inner, network |-> network]
           /\ ret' = into_wallet_descriptor(inner, network)

IntoWalletDescriptorTemplate ==
    /\ op = "idle"
    /\ \E inner \in { x \in Sources : x.kind = "template" }, network \in Networks :
           /\ op' = "into_wallet_descriptor"
           /\ args' = [inner |-> inner, network |-> network]
           /\ ret' = into_wallet_descriptor(inner, network)

\* Descriptor::to_string: the descriptor written with its public keys,
\* followed by '#' and the checksum
to_string(d) ==
    DescriptorString(d, FALSE) \o <<HashChar>> \o ChecksumOf(DescriptorString(d, FALSE))

\* a template output is converted, and the string of the wallet descriptor
\* it gives is converted again for the same network
IntoWalletDescriptorFromOutput ==
    /\ op = "idle"
    /\ \E inner \in { x \in Sources : x.kind = "template" }, network \in Networks :
           LET first == into_wallet_descriptor(inner, network)
           IN  /\ first.ok
               /\ op' = "from_output"
               /\ args' = [inner |-> inner, network |-> network,
                           wallet_desc |-> first.descriptor,
                           wallet_desc_str |-> to_string(first.descriptor)]
               /\ ret' = into_wallet_descriptor(StrSource(to_string(first.descriptor)),
                                                network)

IntoWalletDescriptorChecked ==
    /\ op = "idle"
    /\ \E inner \in Sources, network \in Networks :
           /\ op' = "into_wallet_descriptor_checked"
           /\ args' = [inner |-> inner, network |-> network]
           /\ ret' = into_wallet_descriptor_checked(inner, network)

Next ==
    \/ IntoWalletDescriptorStr
    \/ IntoWalletDescriptorDesc
    \/ IntoWalletDescriptorPair
    \/ IntoWalletDescriptorTemplate
    \/ IntoWalletDescriptorChecked
    \/ IntoWalletDescriptorFromOutput
    \/ Return

Spec == Init /\ [][Next]_vars

-----------------------------------------------------------------------------
(***************************************************************************)
(* Derived descriptors and scripts                                         *)
(***************************************************************************)
None == [some |-> FALSE]

Some(v) == [some |-> TRUE, value |-> v]

\* DescriptorPublicKey::derive: a wildcard key gets the index as its last
\* step and loses its wildcard; any other key is unchanged
derive(k, index) ==
    IF k.kind = "XPub" /\ k.wildcard # "None"
    THEN [k EXCEPT !.derivation_path =
                       @ \o <<IF k.wildcard = "Hardened"
                              THEN Hardened(index)
                              ELSE Normal(index)>>,
                   !.wildcard = "None"]
    ELSE k

\* AsDerived::as_derived: the descriptor with every key derived at the index
as_derived(d, index) ==
    Descriptor(d.desc_type, [i \in 1..Len(d.keys) |-> derive(d.keys[i], index)])

\* AsDerived::as_derived_fixed, for a descriptor without wildcard
as_derived_fixed(d) == as_derived(d, 0)

\* ExtendedPubKey::derive_pub: the public key at the path below the key
derive_pub(xkey, path) == [single |-> FALSE, id |-> xkey.id, path |-> path]

\* the public key a derived key stands for
to_public_key(k) ==
    IF k.kind = "SinglePub"
    THEN [single |-> TRUE, id |-> k.pk, path |-> <<>>]
    ELSE derive_pub(k.xkey, k.derivation_path)

PublicKeys(dd) == [i \in 1..Len(dd.keys) |-> to_public_key(dd.keys[i])]

Count(s, x) == Cardinality({i \in 1..Len(s) : s[i] = x})

\* the keys of a sorted multisig, in their one sorted order
SortedKeys(pks) ==
    CHOOSE q \in [1..Len(pks) -> {pks[i] : i \in 1..Len(pks)}] :
        \A i \in 1..Len(pks) : Count(q, pks[i]) = Count(pks, pks[i])

\* DescriptorTrait::explicit_script of a derived descriptor
explicit_script(dd) ==
    CASE dd.desc_type \in {"Bare", "Sh", "Wsh", "ShWsh"} ->
             [template |-> "miniscript", keys |-> PublicKeys(dd)]
      [] dd.desc_type \in {"ShSortedMulti", "WshSortedMulti", "ShWshSortedMulti"} ->
             [template |-> "sortedmulti", keys |-> SortedKeys(PublicKeys(dd))]
      [] dd.desc_type = "Pkh" -> [template |-> "p2pkh", keys |-> PublicKeys(dd)]
      [] dd.desc_type \in {"Wpkh", "ShWpkh"} ->
             [template |-> "p2wpkh", keys |-> PublicKeys(dd)]

\* DescriptorTrait::script_pubkey of a derived descriptor
script_pubkey(dd) ==
    CASE dd.desc_type \in {"Bare", "Pkh", "Wpkh"} -> explicit_script(dd)
      [] dd.desc_type \in {"Sh", "ShSortedMulti", "ShWpkh"} ->
             [template |-> "p2sh", inner |-> explicit_script(dd)]
      [] dd.desc_type \in {"Wsh", "WshSortedMulti"} ->
             [template |-> "p2wsh", inner |-> explicit_script(dd)]
      [] dd.desc_type \in {"ShWsh", "ShWshSortedMulti"} ->
             [template |-> "p2sh",
              inner |-> [template |-> "p2wsh", inner |-> explicit_script(dd)]]

\* bitcoin::TxOut
TxOut(script) == [script_pubkey |-> script]

-----------------------------------------------------------------------------
(***************************************************************************)
(* XKeyUtils                                                               *)
(***************************************************************************)
\* XKeyUtils::full_path
full_path(xpub, append) ==
    LET path == IF xpub.origin.present
                THEN xpub.origin.path \o xpub.derivation_path
                ELSE xpub.derivation_path
    IN  IF xpub.wildcard # "None" THEN path \o append ELSE path

\* XKeyUtils::root_fingerprint
root_fingerprint(xpub) ==
    IF xpub.origin.present
    THEN xpub.origin.fingerprint
    ELSE xkey_fingerprint(xpub.xkey)

\* bip32::KeySource
KeySource(f, p) == [fingerprint |-> f, path |-> p]

\* DescriptorXKey::matches: the path without its last step (the whole path
\* for a key without wildcard) when it is the key's origin path followed by
\* its derivation path under the key's root fingerprint
matches(xpub, keysource) ==
    LET compare_fingerprint == IF xpub.origin.present
                               THEN xpub.origin.fingerprint
                               ELSE xkey_fingerprint(xpub.xkey)
        compare_path == IF xpub.origin.present
                        THEN xpub.origin.path \o xpub.derivation_path
                        ELSE xpub.derivation_path
        path == keysource.path
        path_excluding_wildcard ==
            IF xpub.wildcard # "None" /\ Len(path) > 0
            THEN SubSeq(path, 1, Len(path) - 1)
            ELSE path
    IN  IF /\ compare_fingerprint = keysource.fingerprint
           /\ compare_path = path_excluding_wildcard
        THEN Some(path_excluding_wildcard)
        ELSE None

-----------------------------------------------------------------------------
(***************************************************************************)
(* DescriptorMeta                                                          *)
(***************************************************************************)
\* ForEachKey::for_each_key with a closure that carries a state: the closure
\* runs on the keys in the order of the descriptor while it returns true
\* (the traversal is a short-circuit conjunction).  visited lists the keys
\* the closure ran on.
for_each_key(d, f(_, _), init) ==
    LET run[i \in 0..Len(d.keys)] ==
            IF i = 0
            THEN [acc |-> init, go |-> TRUE, visited |-> <<>>]
            ELSE LET prev == run[i - 1]
                 IN  IF ~prev.go
                     THEN prev
                     ELSE LET r == f(d.keys[i], prev.acc)
                          IN  [acc |-> r.acc, go |-> r.ret,
                               visited |-> Append(prev.visited, i)]
    IN  run[Len(d.keys)]

\* the index of derive_from_hd_keypaths: for every fingerprint of the table,
\* its paths in the order of the table
hd_index(hd_keypaths) ==
    [f \in {hd_keypaths[i].fingerprint : i \in 1..Len(hd_keypaths)} |->
        LET es == SelectSeq(hd_keypaths, LAMBDA e : e.fingerprint = f)
        IN  [i \in 1..Len(es) |-> es[i].path]]

\* the loop over the candidate paths taking a hardened step as an index too
scan_paths_any_step(self, xpub, paths, utxo, descriptor_found) ==
    LET run[i \in 0..Len(paths)] ==
            IF i = 0
            THEN [found |-> descriptor_found, returned |-> FALSE]
            ELSE LET prev   == run[i - 1]
                     path   == paths[i]
                     prefix == matches(xpub, KeySource(root_fingerprint(xpub), path))
                     path_without_prefix ==
                         IF prefix.some
                         THEN SubSeq(path, Len(prefix.value) + 1, Len(path))
                         ELSE <<>>
                 IN  IF prev.returned \/ ~prefix.some
                     THEN prev
                     ELSE IF Len(path_without_prefix) = 1
                          THEN LET descriptor ==
                                       as_derived(self, path_without_prefix[1].index)
                               IN  IF /\ utxo.some
                                      /\ script_pubkey(descriptor)
                                             # utxo.value.script_pubkey
                                   THEN [found |-> prev.found, returned |-> TRUE]
                                   ELSE [found |-> Some(descriptor), returned |-> FALSE]
                          ELSE prev
    IN  run[Len(paths)].found

\* the loop over the candidate paths without the comparison with the utxo
scan_paths_no_guard(self, xpub, paths, utxo, descriptor_found) ==
    LET run[i \in 0..Len(paths)] ==
            IF i = 0
            THEN descriptor_found
            ELSE LET prev   == run[i - 1]
                     path   == paths[i]
                     prefix == matches(xpub, KeySource(root_fingerprint(xpub), path))
                     path_without_prefix ==
                         IF prefix.some
                         THEN SubSeq(path, Len(prefix.value) + 1, Len(path))
                         ELSE <<>>
                 IN  IF /\ prefix.some
                        /\ Len(path_without_prefix) = 1
                        /\ ~path_without_prefix[1].hardened
                     THEN Some(as_derived(self, path_without_prefix[1].index))
                     ELSE prev
    IN  run[Len(paths)]

\* the loop over the candidate paths of one key in derive_from_hd_keypaths:
\* the value of descriptor_found when the closure returns
scan_paths(self, xpub, paths, utxo, descriptor_found) ==
    LET run[i \in 0..Len(paths)] ==
            IF i = 0
            THEN [found |-> descriptor_found, returned |-> FALSE]
            ELSE LET prev   == run[i - 1]
                     path   == paths[i]
                     prefix == matches(xpub, KeySource(root_fingerprint(xpub), path))
                     path_without_prefix ==
                         IF prefix.some
                         THEN SubSeq(path, Len(prefix.value) + 1, Len(path))
                         ELSE <<>>
                 IN  IF prev.returned \/ ~prefix.some
                     THEN prev
                     ELSE IF /\ Len(path_without_prefix) = 1
                             /\ ~path_without_prefix[1].hardened
                          THEN LET descriptor ==
                                       as_derived(self, path_without_prefix[1].index)
                               IN  IF /\ utxo.some
                                      /\ script_pubkey(descriptor)
                                             # utxo.value.script_pubkey
                                   THEN [found |-> prev.found, returned |-> TRUE]
                                   ELSE [found |-> Some(descriptor), returned |-> FALSE]
                          ELSE prev
    IN  run[Len(paths)].found

\* visit_key that also takes a key without wildcard whose full path is in
\* the table, as the fixed instantiation
visit_key_accept_fixed(self, index, utxo, key, descriptor_found) ==
    IF descriptor_found.some
    THEN [acc |-> descriptor_found, ret |-> TRUE]
    ELSE IF key.kind = "XPub"
         THEN IF root_fingerprint(key) \notin DOMAIN index
              THEN [acc |-> descriptor_found, ret |-> FALSE]
              ELSE IF key.wildcard = "None"
                   THEN IF \E i \in 1..Len(index[root_fingerprint(key)]) :
                               index[root_fingerprint(key)][i] = full_path(key, <<>>)
                        THEN [acc |-> Some(as_derived(self, 0)), ret |-> FALSE]
                        ELSE [acc |-> descriptor_found, ret |-> FALSE]
                   ELSE [acc |-> scan_paths(self, key, index[root_fingerprint(key)],
                                            utxo, descriptor_found),
                         ret |-> FALSE]
         ELSE [acc |-> descriptor_found, ret |-> FALSE]

\* visit_key that goes on with the next key whatever it found
visit_key_keep_going(self, index, utxo, key, descriptor_found) ==
    IF key.kind = "XPub" /\ key.wildcard # "None"
          /\ root_fingerprint(key) \in DOMAIN index
    THEN [acc |-> scan_paths(self, key, index[root_fingerprint(key)], utxo,
                             descriptor_found),
          ret |-> TRUE]
    ELSE [acc |-> descriptor_found, ret |-> TRUE]

\* the closure of derive_from_hd_keypaths on one key: the new value of
\* descriptor_found and the boolean the closure returns
visit_key(self, index, utxo, key, descriptor_found) ==
    IF descriptor_found.some
    THEN [acc |-> descriptor_found, ret |-> TRUE]
    ELSE IF key.kind = "XPub"
         THEN IF key.wildcard = "None"
              THEN [acc |-> descriptor_found, ret |-> FALSE]
              ELSE IF root_fingerprint(key) \notin DOMAIN index
                   THEN [acc |-> descriptor_found, ret |-> FALSE]
                   ELSE [acc |-> scan_paths(self, key, index[root_fingerprint(key)],
                                            utxo, descriptor_found),
                         ret |-> FALSE]
         ELSE [acc |-> descriptor_found, ret |-> FALSE]

\* derive_from_hd_keypaths with the keys its closure ran on
hd_keypaths_traversal(self, hd_keypaths, utxo) ==
    for_each_key(self,
                 LAMBDA key, found : visit_key(self, hd_index(hd_keypaths), utxo, key, found),
                 None)

\* DescriptorMeta::derive_from_hd_keypaths
derive_from_hd_keypaths(self, hd_keypaths, utxo) ==
    hd_keypaths_traversal(self, hd_keypaths, utxo).acc

\* psbt::Input: the fields derive_from_psbt_input reads
PsbtInput(hd_keypaths, redeem_script, witness_script) ==
    [bip32_derivation |-> hd_keypaths,
     redeem_script |-> redeem_script,
     witness_script |-> witness_script]

\* match_by_script reading the redeem script for every script-hash type
match_by_script_sh_redeem(self, psbt_input, utxo) ==
    LET descriptor == as_derived_fixed(self)
    IN  IF /\ descriptor.desc_type \in {"Pkh", "Wpkh", "ShWpkh"}
           /\ utxo.some
           /\ script_pubkey(descriptor) = utxo.value.script_pubkey
        THEN Some(descriptor)
        ELSE IF /\ descriptor.desc_type
                       \in {"Bare", "Sh", "ShSortedMulti", "ShWsh", "ShWshSortedMulti"}
                /\ psbt_input.redeem_script.some
                /\ explicit_script(descriptor) = psbt_input.redeem_script.value
             THEN Some(descriptor)
             ELSE IF /\ descriptor.desc_type \in {"Wsh", "WshSortedMulti"}
                     /\ psbt_input.witness_script.some
                     /\ explicit_script(descriptor) = psbt_input.witness_script.value
                  THEN Some(descriptor)
                  ELSE None

\* the script comparison of derive_from_psbt_input
match_by_script(self, psbt_input, utxo) ==
    LET descriptor == as_derived_fixed(self)
    IN  IF /\ descriptor.desc_type \in {"Pkh", "Wpkh", "ShWpkh"}
           /\ utxo.some
           /\ script_pubkey(descriptor) = utxo.value.script_pubkey
        THEN Some(descriptor)
        ELSE IF /\ descriptor.desc_type \in {"Bare", "Sh", "ShSortedMulti"}
                /\ psbt_input.redeem_script.some
                /\ explicit_script(descriptor) = psbt_input.redeem_script.value
             THEN Some(descriptor)
             ELSE IF /\ descriptor.desc_type
                            \in {"Wsh", "ShWsh", "ShWshSortedMulti", "WshSortedMulti"}
                     /\ psbt_input.witness_script.some
                     /\ explicit_script(descriptor) = psbt_input.witness_script.value
                  THEN Some(descriptor)
                  ELSE None

\* psbt_input_steps without the exit on a descriptor with wildcard
psbt_input_steps_no_exit(self, psbt_input, utxo) ==
    LET derived == derive_from_hd_keypaths(self, psbt_input.bip32_derivation, utxo)
    IN  IF derived.some
        THEN [result |-> derived, steps |-> <<"derive_from_hd_keypaths">>]
        ELSE [result |-> match_by_script(self, psbt_input, utxo),
              steps |-> <<"derive_from_hd_keypaths", "script">>]

\* derive_from_psbt_input with the steps it takes, in order
psbt_input_steps(self, psbt_input, utxo) ==
    LET derived == derive_from_hd_keypaths(self, psbt_input.bip32_derivation, utxo)
    IN  IF derived.some
        THEN [result |-> derived, steps |-> <<"derive_from_hd_keypaths">>]
        ELSE IF is_deriveable(self)
             THEN [result |-> None,
                   steps |-> <<"derive_from_hd_keypaths", "is_deriveable">>]
             ELSE [result |-> match_by_script(self, psbt_input, utxo),
                   steps |-> <<"derive_from_hd_keypaths", "is_deriveable", "script">>]

\* DescriptorMeta::derive_from_psbt_input
derive_from_psbt_input(self, psbt_input, utxo) ==
    psbt_input_steps(self, psbt_input, utxo).result

\* get_hd_keypaths keeping the first entry of a public key
get_hd_keypaths_first_wins(dd) ==
    LET answer[i \in 0..Len(dd.keys)] ==
            IF i = 0
            THEN <<>>
            ELSE LET prev == answer[i - 1]
                     xpub == dd.keys[i]
                     derived_pubkey == derive_pub(xpub.xkey, xpub.derivation_path)
                 IN  IF xpub.kind = "XPub" /\ derived_pubkey \notin DOMAIN prev
                     THEN [pk \in (DOMAIN prev) \cup {derived_pubkey} |->
                              IF pk = derived_pubkey
                              THEN KeySource(root_fingerprint(xpub), full_path(xpub, <<>>))
                              ELSE prev[pk]]
                     ELSE prev
    IN  answer[Len(dd.keys)]

\* DerivedDescriptorMeta::get_hd_keypaths: the map from the public key of
\* every extended key to its key source; a later key replaces the entry of
\* an earlier one with the same public key
get_hd_keypaths(dd) ==
    LET answer[i \in 0..Len(dd.keys)] ==
            IF i = 0
            THEN <<>>
            ELSE LET prev == answer[i - 1]
                     xpub == dd.keys[i]
                     derived_pubkey == derive_pub(xpub.xkey, xpub.derivation_path)
                 IN  IF xpub.kind = "XPub"
                     THEN [pk \in (DOMAIN prev) \cup {derived_pubkey} |->
                              IF pk = derived_pubkey
                              THEN KeySource(root_fingerprint(xpub), full_path(xpub, <<>>))
                              ELSE prev[pk]]
                     ELSE prev
    IN  answer[Len(dd.keys)]

-----------------------------------------------------------------------------
(***************************************************************************)
(* Inputs of the matchers: the descriptors of a wallet, the evidence of a  *)
(* PSBT input                                                              *)
(***************************************************************************)
\* the base path of the wallet's keys
BasePath == <<Normal(0)>>

\* X1/0/*
KeyA == XPub(NoOrigin, XKey(1, "Testnet"), BasePath, "Unhardened")

\* X1/0/j: the extended key of KeyA at a fixed path
KeyAFixed(j) == XPub(NoOrigin, XKey(1, "Testnet"), BasePath \o <<Normal(j)>>, "None")

\* [1/0']X2/*: another extended key under the root fingerprint of KeyA
KeyB == XPub(Origin1, XKey(2, "Testnet"), <<>>, "Unhardened")

\* [1/0']X2/0
KeyBFixed == XPub(Origin1, XKey(2, "Testnet"), <<Normal(0)>>, "None")

\* X2/*: the extended key of KeyB written without its origin
KeyD == XPub(NoOrigin, XKey(2, "Testnet"), <<>>, "Unhardened")

\* X1/0/*h
KeyH == XPub(NoOrigin, XKey(1, "Testnet"), BasePath, "Hardened")

\* the keys without wildcard
FixedKeys == {SinglePub(1), KeyBFixed} \cup {KeyAFixed(j) : j \in 0..MaxIndex}

MatchKeys == FixedKeys \cup {KeyA, KeyB, KeyD, KeyH}

\* the keys of the descriptors of several keys
MultiKeys == {SinglePub(1), KeyA, KeyAFixed(MaxIndex), KeyB, KeyD}

\* the descriptors: every type on a key without wildcard, three types on
\* every key, and scripts of several keys
MatchDescriptors ==
    { Descriptor(ty, <<k>>) : ty \in DescriptorTypes, k \in FixedKeys }
      \cup { Descriptor(ty, <<k>>) : ty \in {"Pkh", "Sh", "Wsh"}, k \in MatchKeys }
      \cup { Descriptor("Sh", ks) : ks \in { l \in KeyLists(MultiKeys) : Len(l) >= 2 } }
      \cup { Descriptor("WshSortedMulti", ks) :
               ks \in { l \in KeyLists({SinglePub(1), KeyAFixed(MaxIndex)}) : Len(l) >= 2 } }

\* the descriptors a wallet holds: those into_wallet_descriptor_checked accepts
WalletNetwork == "Testnet"

WalletDescriptors ==
    { d \in MatchDescriptors :
        into_wallet_descriptor_checked(DescSource(d), WalletNetwork).ok }

\* the key sources of the evidence: the path of KeyA at every index, the
\* paths of KeyB and of KeyD at index 0, and paths KeyA must reject (its
\* prefix alone, two steps more, a hardened step more)
EvidenceSources ==
    { KeySource(1, BasePath \o <<Normal(i)>>) : i \in 0..MaxIndex }
      \cup { KeySource(1, <<Hardened(0), Normal(0)>>),
             KeySource(2, <<Normal(0)>>),
             KeySource(1, BasePath),
             KeySource(1, BasePath \o <<Normal(0), Normal(0)>>),
             KeySource(1, BasePath \o <<Hardened(0)>>) }

\* the tables of at most MaxTable distinct key sources
Tables(sources) ==
    UNION { { t \in [1..n -> sources] :
                \A i, j \in 1..n : i # j => t[i] # t[j] } : n \in 0..MaxTable }

\* HDKeyPaths: the key sources of the table in the order the table yields
\* them, the order of the public keys they are attached to
HDKeyPaths == Tables(EvidenceSources)

\* the key sources of the evidence of a PSBT input
PsbtEvidenceSources ==
    { KeySource(1, BasePath \o <<Normal(i)>>) : i \in 0..MaxIndex }
      \cup { KeySource(2, <<Normal(0)>>) }

PsbtHDKeyPaths == Tables(PsbtEvidenceSources)

\* a script of somebody else
ForeignScript == [template |-> "p2pkh", keys |-> <<[single |-> TRUE, id |-> 9, path |-> <<>>]>>]

\* the utxo of the input: unknown, the output of the descriptor at some
\* index, or an output of somebody else
Utxos(d) ==
    {None, Some(TxOut(ForeignScript))}
      \cup { Some(TxOut(script_pubkey(as_derived(d, i)))) : i \in 0..MaxIndex }

\* the redeem_script or witness_script of the input
Scripts(d) == {None, Some(ForeignScript), Some(explicit_script(as_derived(d, 0)))}

DeriveFromHdKeypaths ==
    /\ op = "idle"
    /\ \E self \in WalletDescriptors, hd_keypaths \in HDKeyPaths :
           \E utxo \in Utxos(self) :
               /\ op' = "derive_from_hd_keypaths"
               /\ args' = [self |-> self, hd_keypaths |-> hd_keypaths, utxo |-> utxo]
               /\ ret' = LET t == hd_keypaths_traversal(self, hd_keypaths, utxo)
                          IN  [result |-> t.acc, visited |-> t.visited]

DeriveFromPsbtInput ==
    /\ op = "idle"
    /\ \E self \in WalletDescriptors, hd_keypaths \in PsbtHDKeyPaths :
           \E utxo \in Utxos(self), redeem_script, witness_script \in Scripts(self) :
               LET psbt_input == PsbtInput(hd_keypaths, redeem_script, witness_script)
               IN  /\ op' = "derive_from_psbt_input"
                   /\ args' = [self |-> self, psbt_input |-> psbt_input, utxo |-> utxo]
                   /\ ret' = psbt_input_steps(self, psbt_input, utxo)

GetHdKeypaths ==
    /\ op = "idle"
    /\ \E descriptor \in WalletDescriptors, index \in 0..MaxIndex :
           /\ op' = "get_hd_keypaths"
           /\ args' = [descriptor |-> descriptor, index |-> index,
                       self |-> as_derived(descriptor, index)]
           /\ ret' = get_hd_keypaths(as_derived(descriptor, index))

\* the orders in which a table can yield its key sources: the order of
\* its public keys, which says nothing about the paths
ValuesInKeyOrder(table) ==
    { [n \in 1..Cardinality(DOMAIN table) |-> table[f[n]]] :
        f \in { g \in [1..Cardinality(DOMAIN table) -> DOMAIN table] :
                  \A a, b \in 1..Cardinality(DOMAIN table) : a # b => g[a] # g[b] } }

\* the table of a descriptor derived at an index is given back to the
\* matcher of the descriptor
DeriveFromReconstructed ==
    /\ op = "idle"
    /\ \E descriptor \in WalletDescriptors, index \in 0..MaxIndex :
           \E hd_keypaths \in ValuesInKeyOrder(get_hd_keypaths(as_derived(descriptor, index))),
              utxo \in {None, Some(TxOut(script_pubkey(as_derived(descriptor, index))))} :
               /\ op' = "derive_from_reconstructed"
               /\ args' = [self |-> descriptor, index |-> index,
                           hd_keypaths |-> hd_keypaths, utxo |-> utxo]
               /\ ret' = [result |-> derive_from_hd_keypaths(descriptor, hd_keypaths, utxo)]

NextMatch ==
    \/ DeriveFromReconstructed
    \/ DeriveFromHdKeypaths
    \/ GetHdKeypaths
    \/ Return

SpecMatch == Init /\ [][NextMatch]_vars

NextPsbt ==
    \/ DeriveFromPsbtInput
    \/ Return

SpecPsbt == Init /\ [][NextPsbt]_vars

-----------------------------------------------------------------------------
(***************************************************************************)
(* Properties of the conversions                                           *)
(***************************************************************************)
\* the networks a key is valid for, as the strict check reads them
KeyNetworks(k) ==
    IF k.kind = "SinglePub"
    THEN Networks
    ELSE IF k.xkey.network = "Bitcoin" THEN {"Bitcoin"} ELSE {"Testnet", "Regtest"}

AllKeysValid(d, network) == \A i \in 1..Len(d.keys) : network \in KeyNetworks(d.keys[i])

\* some extended key has a hardened wildcard or a hardened step in its base path
HasHardenedStep(d) ==
    \E i \in 1..Len(d.keys) :
        /\ d.keys[i].kind = "XPub"
        /\ \/ d.keys[i].wildcard = "Hardened"
           \/ \E j \in 1..Len(d.keys[i].derivation_path) :
                  d.keys[i].derivation_path[j].hardened

\* C3: into_wallet_descriptor_checked returns HardenedDerivationXpub exactly
\* when into_wallet_descriptor succeeds and some extended key of its
\* descriptor has a hardened wildcard or a hardened step in its base path;
\* an error of into_wallet_descriptor is returned as is, and otherwise the
\* pair of into_wallet_descriptor is returned unchanged.
C3_CheckedRejectsHardened ==
    op = "into_wallet_descriptor_checked" =>
        LET r    == into_wallet_descriptor(args.inner, args.network)
            hard == r.ok /\ HasHardenedStep(r.descriptor)
        IN  /\ (~ret.ok /\ ret.err = "HardenedDerivationXpub") <=> hard
            /\ ~r.ok => ret = r
            /\ (r.ok /\ ~hard) => ret = r

\* a hardened base step is rejected while the plain conversion succeeds
C3_Witness ==
    /\ op = "into_wallet_descriptor_checked"
    /\ ret.err = "HardenedDerivationXpub"
    /\ LET r == into_wallet_descriptor(args.inner, args.network)
       IN  /\ r.ok
           /\ \A i \in 1..Len(r.descriptor.keys) :
                  r.descriptor.keys[i].kind = "XPub"
                      => r.descriptor.keys[i].wildcard # "Hardened"

\* C4: for every string d and every suffix s other than checksum(d) (the
\* empty suffix and a suffix holding '#' included),
\* into_wallet_descriptor(d # s) fails with InvalidDescriptorChecksum,
\* whether or not d parses or is valid for the network.
C4_WrongChecksumRejected ==
    ( /\ op = "into_wallet_descriptor"
      /\ args.inner.kind = "str"
      /\ args.inner.suffixed
      /\ ~( get_checksum(args.inner.d).ok
            /\ args.inner.suffix = get_checksum(args.inner.d).value ) )
        => ret = Err("InvalidDescriptorChecksum")

\* a descriptor that is accepted without suffix is rejected with a suffix
\* that holds a '#'
C4_Witness ==
    /\ op = "into_wallet_descriptor"
    /\ args.inner.kind = "str"
    /\ args.inner.suffixed
    /\ contains_hash(args.inner.suffix)
    /\ into_wallet_descriptor_str(args.inner.d, args.network).ok
    /\ ret = Err("InvalidDescriptorChecksum")

\* C5: for every string d without '#', into_wallet_descriptor(d # checksum(d))
\* returns what into_wallet_descriptor(d) returns, descriptor, key map or
\* error; a string without a suffix is never rejected for its checksum.
C5_ValidChecksumTransparent ==
    ( /\ op = "into_wallet_descriptor"
      /\ args.inner.kind = "str"
      /\ ~contains_hash(args.inner.d) )
        => /\ ( /\ args.inner.suffixed
                /\ get_checksum(args.inner.d).ok
                /\ args.inner.suffix = get_checksum(args.inner.d).value )
               => ret = into_wallet_descriptor_str(args.inner.d, args.network)
           /\ ~args.inner.suffixed => ret.err # "InvalidDescriptorChecksum"

\* a string with its checksum is accepted
C5_Witness ==
    /\ op = "into_wallet_descriptor"
    /\ args.inner.kind = "str"
    /\ args.inner.suffixed
    /\ args.inner.suffix = ChecksumOf(args.inner.d)
    /\ ret.ok
    /\ ret.keymap # {}

\* the descriptor and key map a source holds before the network check
SourcePair(inner) ==
    CASE inner.kind = "str" -> parse_descriptor(inner.d)
      [] inner.kind = "descriptor" -> Ok(inner.descriptor, {})
      [] inner.kind = "pair" -> Ok(inner.descriptor, inner.keymap)

\* C6: for a string (that passes the checksum gate and parses), a
\* descriptor or a (descriptor, key map) source, into_wallet_descriptor
\* succeeds iff the network is in the valid networks of every key; if not
\* the result is Key(InvalidNetwork); on success the descriptor and the
\* key map are those of the source.
C6_StrictNetworkCheck ==
    ( /\ op = "into_wallet_descriptor"
      /\ args.inner.kind \in {"str", "descriptor", "pair"}
      /\ args.inner.kind = "str"
             => /\ ~contains_hash(args.inner.d)
                /\ args.inner.suffixed => args.inner.suffix = ChecksumOf(args.inner.d)
                /\ get_checksum(args.inner.d).ok
                /\ parse_descriptor(args.inner.d).ok )
        => LET src == SourcePair(args.inner)
           IN  /\ ret.ok <=> AllKeysValid(src.descriptor, args.network)
               /\ ~ret.ok => ret = Err("Key(InvalidNetwork)")
               /\ ret.ok => /\ ret.descriptor = src.descriptor
                            /\ ret.keymap = src.keymap

\* the second key alone is bound to another network
C6_Witness ==
    /\ op = "into_wallet_descriptor"
    /\ args.inner.kind = "pair"
    /\ Len(args.inner.descriptor.keys) = 2
    /\ args.network \in KeyNetworks(args.inner.descriptor.keys[1])
    /\ args.network \notin KeyNetworks(args.inner.descriptor.keys[2])
    /\ ret = Err("Key(InvalidNetwork)")

C12_TextRoundTrip ==
    op = "from_output" => (ret.ok /\ ret.descriptor = args.wallet_desc)

-----------------------------------------------------------------------------
(***************************************************************************)
(* Properties of the matchers                                              *)
(***************************************************************************)
IsWildcard(k) == k.kind = "XPub" /\ k.wildcard # "None"

HasWildcard(d) == \E p \in 1..Len(d.keys) : IsWildcard(d.keys[p])

\* the path of an extended key from its root: origin path, then base path
PrefixOf(k) == (IF k.origin.present THEN k.origin.path ELSE <<>>) \o k.derivation_path

\* the root fingerprint of an extended key
RootOf(k) == IF k.origin.present THEN k.origin.fingerprint ELSE k.xkey.id

InTable(t, f, p) == \E n \in 1..Len(t) : t[n].fingerprint = f /\ t[n].path = p

\* the descriptor holds the extended key of the wildcard key at position a
\* again at position b, at the fixed path P/j
SameKeyAtFixedPath(d, a, b, j) ==
    /\ IsWildcard(d.keys[a])
    /\ d.keys[b].kind = "XPub"
    /\ d.keys[b].wildcard = "None"
    /\ d.keys[b].xkey = d.keys[a].xkey
    /\ d.keys[b].origin = d.keys[a].origin
    /\ d.keys[b].derivation_path = d.keys[a].derivation_path \o <<Normal(j)>>

\* C1: when a descriptor holds one extended key at the wildcard path P/*
\* and at the fixed path P/j, the table holds (f, P/i) and (f, P/j) with
\* i # j, and the utxo is the script of the descriptor at index i, then
\* derive_from_psbt_input returns the descriptor derived at index i.
C1_Disambiguation ==
    op = "derive_from_psbt_input" =>
        \A a, b \in 1..Len(args.self.keys) : \A i, j \in 0..MaxIndex :
            ( /\ i # j
              /\ SameKeyAtFixedPath(args.self, a, b, j)
              /\ InTable(args.psbt_input.bip32_derivation, RootOf(args.self.keys[a]),
                         PrefixOf(args.self.keys[a]) \o <<Normal(i)>>)
              /\ InTable(args.psbt_input.bip32_derivation, RootOf(args.self.keys[a]),
                         PrefixOf(args.self.keys[a]) \o <<Normal(j)>>)
              /\ args.utxo = Some(TxOut(script_pubkey(as_derived(args.self, i)))) )
                => /\ ret.result.some
                   /\ script_pubkey(ret.result.value)
                          = script_pubkey(as_derived(args.self, i))

\* the keys of the descriptor whose wildcard the table is to resolve
WildcardKeys(d) == {p \in 1..Len(d.keys) : IsWildcard(d.keys[p])}

\* the table holds exactly one path under the root fingerprint of every
\* wildcard key, the path of that key followed by the normal index i
OneCandidatePerFingerprint(d, t, i) ==
    \A p \in WildcardKeys(d) :
        /\ Cardinality({n \in 1..Len(t) : t[n].fingerprint = RootOf(d.keys[p])}) = 1
        /\ InTable(t, RootOf(d.keys[p]), PrefixOf(d.keys[p]) \o <<Normal(i)>>)

\* C2: for every descriptor with a wildcard key and every table with
\* exactly one candidate path per relevant root fingerprint, the path of
\* the key followed by one normal index i, derive_from_hd_keypaths returns
\* a descriptor whose script_pubkey is that of as_derived(i), wherever the
\* wildcard key sits (the utxo being absent or the output of index i).
C2_SingleCandidateDerives ==
    op = "derive_from_hd_keypaths" =>
        \A i \in 0..MaxIndex :
            ( /\ HasWildcard(args.self)
              /\ OneCandidatePerFingerprint(args.self, args.hd_keypaths, i)
              /\ \/ args.utxo = None
                 \/ args.utxo = Some(TxOut(script_pubkey(as_derived(args.self, i)))) )
                => /\ ret.result.some
                   /\ script_pubkey(ret.result.value)
                          = script_pubkey(as_derived(args.self, i))

InSeq(x, sq) == \E n \in 1..Len(sq) : sq[n] = x

\* C7: derive_from_psbt_input tries the HD-path matcher first and returns
\* its descriptor whenever it finds one; the scripts are compared only when
\* it found nothing and the descriptor has no wildcard; a descriptor with
\* wildcard on which it found nothing yields None whatever the utxo and the
\* scripts of the input.
C7_ResolutionOrder ==
    op = "derive_from_psbt_input" =>
        LET hd == derive_from_hd_keypaths(args.self, args.psbt_input.bip32_derivation,
                                          args.utxo)
        IN  /\ ret.steps[1] = "derive_from_hd_keypaths"
            /\ hd.some => (ret.result = hd /\ ~InSeq("script", ret.steps))
            /\ InSeq("script", ret.steps)
                   => (~hd.some /\ ~HasWildcard(args.self)
                       /\ ret.steps[Len(ret.steps)] = "script")
            /\ (HasWildcard(args.self) /\ ~hd.some) => ret.result = None
            /\ ret.result = None \/ ret.result.some

\* a descriptor with wildcard, no evidence, and the utxo and scripts of its
\* index 0: no match
C7_Witness ==
    /\ op = "derive_from_psbt_input"
    /\ HasWildcard(args.self)
    /\ args.utxo = Some(TxOut(script_pubkey(as_derived(args.self, 0))))
    /\ args.psbt_input.redeem_script = Some(explicit_script(as_derived(args.self, 0)))
    /\ args.psbt_input.witness_script = Some(explicit_script(as_derived(args.self, 0)))
    /\ ret.result = None

\* the rows of the script comparison
ScriptRowMatches(d, psbt_input, utxo) ==
    LET fixed == as_derived(d, 0)
    IN  \/ /\ d.desc_type \in {"Pkh", "Wpkh", "ShWpkh"}
           /\ utxo # None
           /\ utxo.value.script_pubkey = script_pubkey(fixed)
        \/ /\ d.desc_type \in {"Bare", "Sh", "ShSortedMulti"}
           /\ psbt_input.redeem_script # None
           /\ psbt_input.redeem_script.value = explicit_script(fixed)
        \/ /\ d.desc_type \in {"Wsh", "ShWsh", "WshSortedMulti", "ShWshSortedMulti"}
           /\ psbt_input.witness_script # None
           /\ psbt_input.witness_script.value = explicit_script(fixed)

\* C8: for a descriptor without wildcard on which the HD-path matcher found
\* nothing, derive_from_psbt_input returns the fixed instantiation iff the
\* row of the descriptor's type has its comparison input and the script
\* equals it; otherwise None.
C8_ScriptFallbackTable ==
    ( /\ op = "derive_from_psbt_input"
      /\ ~HasWildcard(args.self)
      /\ ~derive_from_hd_keypaths(args.self, args.psbt_input.bip32_derivation,
                                  args.utxo).some )
        => IF ScriptRowMatches(args.self, args.psbt_input, args.utxo)
           THEN ret.result = Some(as_derived(args.self, 0))
           ELSE ret.result = None

\* a script-hash wrapped witness script is found by its witness script
\* while the redeem script and the utxo are of somebody else
C8_Witness ==
    /\ op = "derive_from_psbt_input"
    /\ args.self.desc_type = "ShWsh"
    /\ args.psbt_input.redeem_script = Some(ForeignScript)
    /\ args.utxo = Some(TxOut(ForeignScript))
    /\ ret.result.some

\* C9: for a descriptor whose keys are all single keys or extended keys
\* without wildcard, derive_from_hd_keypaths returns None for every table
\* and utxo.
C9_FixedNeverMatchesByPath ==
    ( /\ op = "derive_from_hd_keypaths"
      /\ \A p \in 1..Len(args.self.keys) :
             \/ args.self.keys[p].kind = "SinglePub"
             \/ args.self.keys[p].wildcard = "None" )
        => ret.result = None

\* the table holds the fingerprint and the full path of a fixed key of the
\* descriptor, and the utxo is the descriptor's output
C9_Witness ==
    /\ op = "derive_from_hd_keypaths"
    /\ ~HasWildcard(args.self)
    /\ args.self.keys[1].kind = "XPub"
    /\ InTable(args.hd_keypaths, RootOf(args.self.keys[1]), PrefixOf(args.self.keys[1]))
    /\ args.utxo = Some(TxOut(script_pubkey(as_derived(args.self, 0))))
    /\ ret.result = None

\* the public key an extended key of the descriptor derives at the index
PinnedPublicKey(k, i) ==
    [single |-> FALSE, id |-> k.xkey.id,
     path |-> IF k.wildcard # "None"
              THEN k.derivation_path \o <<Normal(i)>>
              ELSE k.derivation_path]

\* the key source of an extended key of the descriptor at the index
PinnedKeySource(k, i) ==
    [fingerprint |-> RootOf(k),
     path |-> IF k.wildcard # "None" THEN PrefixOf(k) \o <<Normal(i)>> ELSE PrefixOf(k)]

ExtendedKeys(d) == {p \in 1..Len(d.keys) : d.keys[p].kind = "XPub"}

\* C10 as claimed: get_hd_keypaths(as_derived(D, i)) holds, for every
\* extended key of D, an entry under the public key derived at the key's
\* pinned path, with the key's root fingerprint and with the path origin
\* path ++ base path ++ [i] (wildcard key) or origin path ++ base path
\* (fixed key); single keys produce no entry.
C10_EveryKeyItsOwnEntry ==
    op = "get_hd_keypaths" =>
        /\ DOMAIN ret = {PinnedPublicKey(args.descriptor.keys[p], args.index) :
                           p \in ExtendedKeys(args.descriptor)}
        /\ \A p \in ExtendedKeys(args.descriptor) :
               ret[PinnedPublicKey(args.descriptor.keys[p], args.index)]
                   = PinnedKeySource(args.descriptor.keys[p], args.index)

\* the last extended key of the descriptor that derives the public key of
\* the key at position p
LastWithSamePublicKey(d, i, p) ==
    CHOOSE q \in ExtendedKeys(d) :
        /\ PinnedPublicKey(d.keys[q], i) = PinnedPublicKey(d.keys[p], i)
        /\ \A r \in ExtendedKeys(d) :
               PinnedPublicKey(d.keys[r], i) = PinnedPublicKey(d.keys[p], i) => r <= q

\* C10 amended: the entry under the public key of an extended key holds the
\* root fingerprint and the path of the last extended key of D, in the
\* order of the descriptor, that derives that public key; they are the
\* key's own unless a later key derives the same public key.
C10_LastKeyOwnsEntry ==
    op = "get_hd_keypaths" =>
        /\ DOMAIN ret = {PinnedPublicKey(args.descriptor.keys[p], args.index) :
                           p \in ExtendedKeys(args.descriptor)}
        /\ \A p \in ExtendedKeys(args.descriptor) :
               ret[PinnedPublicKey(args.descriptor.keys[p], args.index)]
                   = PinnedKeySource(
                         args.descriptor.keys[
                             LastWithSamePublicKey(args.descriptor, args.index, p)],
                         args.index)

\* a wildcard key with an origin, derived at an index above 0, followed by
\* the same extended key without origin
C10_Witness ==
    /\ op = "get_hd_keypaths"
    /\ args.index > 0
    /\ Len(args.descriptor.keys) = 2
    /\ IsWildcard(args.descriptor.keys[1])
    /\ IsWildcard(args.descriptor.keys[2])
    /\ args.descriptor.keys[1].origin.present
    /\ ~args.descriptor.keys[2].origin.present
    /\ args.descriptor.keys[1].xkey = args.descriptor.keys[2].xkey
    /\ Cardinality(DOMAIN ret) = 1

\* C13: whenever derive_from_hd_keypaths is called with a utxo and returns
\* a derived descriptor, the script_pubkey of that descriptor is the
\* script_pubkey of the utxo.
C13_ExpectedOutputGuard ==
    (op = "derive_from_hd_keypaths" /\ args.utxo.some /\ ret.result.some)
        => script_pubkey(ret.result.value) = args.utxo.value.script_pubkey

\* a match is returned although the table also holds, under the same
\* fingerprint, a path to an index whose script is not the utxo's
C13_Witness ==
    /\ op = "derive_from_hd_keypaths"
    /\ args.utxo.some
    /\ ret.result.some
    /\ IsWildcard(args.self.keys[1])
    /\ \E j \in 0..MaxIndex :
           /\ InTable(args.hd_keypaths, RootOf(args.self.keys[1]),
                      PrefixOf(args.self.keys[1]) \o <<Normal(j)>>)
           /\ script_pubkey(as_derived(args.self, j)) # args.utxo.value.script_pubkey

\* the indexes the table offers for a wildcard key, that the utxo does not
\* contradict: the paths under the key's root fingerprint made of the
\* key's path and one normal step
AcceptableIndexes(d, k, t, utxo) ==
    { i \in 0..(MaxIndex + 1) :
        /\ InTable(t, RootOf(k), PrefixOf(k) \o <<Normal(i)>>)
        /\ utxo.some => script_pubkey(as_derived(d, i)) = utxo.value.script_pubkey }

\* the candidate paths the table holds under the root fingerprint of a key
CandidatesOf(k, t) == { n \in 1..Len(t) : t[n].fingerprint = RootOf(k) }

\* C14: in derive_from_hd_keypaths a key that is skipped does not end the
\* search: when nothing is found every key has been visited, in the order
\* of the descriptor, and a wildcard key with a single candidate, which is
\* acceptable, that comes after keys without wildcard yields a match.
C14_SkippedKeysDoNotEndSearch ==
    op = "derive_from_hd_keypaths" =>
        /\ ~ret.result.some => ret.visited = [n \in 1..Len(args.self.keys) |-> n]
        /\ \A p \in 1..Len(args.self.keys) : \A i \in 0..MaxIndex :
               ( /\ IsWildcard(args.self.keys[p])
                 /\ \A q \in 1..(p - 1) : ~IsWildcard(args.self.keys[q])
                 /\ Cardinality(CandidatesOf(args.self.keys[p], args.hd_keypaths)) = 1
                 /\ AcceptableIndexes(args.self, args.self.keys[p], args.hd_keypaths,
                                      args.utxo) = {i} )
                   => /\ ret.result.some
                      /\ script_pubkey(ret.result.value)
                             = script_pubkey(as_derived(args.self, i))

\* C15: when derive_from_hd_keypaths returns a descriptor, it is the whole
\* descriptor derived at an index accepted from a wildcard key, no wildcard
\* key before that key yields an acceptance, no key after it is examined,
\* and every wildcard key is pinned at that index.
C15_FirstMatchWins ==
    (op = "derive_from_hd_keypaths" /\ ret.result.some) =>
        \E p \in 1..Len(args.self.keys) :
            /\ IsWildcard(args.self.keys[p])
            /\ \A q \in 1..(p - 1) :
                   \/ ~IsWildcard(args.self.keys[q])
                   \/ AcceptableIndexes(args.self, args.self.keys[q], args.hd_keypaths,
                                        args.utxo) = {}
            /\ \A n \in 1..Len(ret.visited) : ret.visited[n] <= p
            /\ \E i \in AcceptableIndexes(args.self, args.self.keys[p], args.hd_keypaths,
                                          args.utxo) :
                   /\ ret.result.value = as_derived(args.self, i)
                   /\ \A r \in 1..Len(args.self.keys) :
                          IsWildcard(args.self.keys[r])
                              => /\ ret.result.value.keys[r].wildcard = "None"
                                 /\ ret.result.value.keys[r].derivation_path
                                        = args.self.keys[r].derivation_path \o <<Normal(i)>>

\* two wildcard keys, for which the table offers different indexes: the
\* first one decides
C15_Witness ==
    /\ op = "derive_from_hd_keypaths"
    /\ ret.result.some
    /\ Len(args.self.keys) = 2
    /\ IsWildcard(args.self.keys[1])
    /\ IsWildcard(args.self.keys[2])
    /\ AcceptableIndexes(args.self, args.self.keys[1], args.hd_keypaths, args.utxo) # {}
    /\ AcceptableIndexes(args.self, args.self.keys[2], args.hd_keypaths, args.utxo) # {}
    /\ AcceptableIndexes(args.self, args.self.keys[1], args.hd_keypaths, args.utxo)
           \cap AcceptableIndexes(args.self, args.self.keys[2], args.hd_keypaths,
                                  args.utxo) = {}

\* the candidate is the path of the key followed by one normal step
GoodShape(k, source) ==
    /\ source.fingerprint = RootOf(k)
    /\ Len(source.path) = Len(PrefixOf(k)) + 1
    /\ SubSeq(source.path, 1, Len(PrefixOf(k))) = PrefixOf(k)
    /\ ~source.path[Len(source.path)].hardened

\* C16: derive_from_hd_keypaths accepts a candidate path for a wildcard key
\* only if it is, under the key's root fingerprint, the key's origin path
\* and base path followed by exactly one normal child number, which is the
\* index of the result; when no candidate of the table has that shape for
\* a wildcard key of the descriptor, the result is None.
C16_RemainderShape ==
    op = "derive_from_hd_keypaths" =>
        /\ ret.result.some
               => \E p \in 1..Len(args.self.keys) : \E n \in 1..Len(args.hd_keypaths) :
                      /\ IsWildcard(args.self.keys[p])
                      /\ GoodShape(args.self.keys[p], args.hd_keypaths[n])
                      /\ ret.result.value
                             = as_derived(args.self,
                                          args.hd_keypaths[n].path[
                                              Len(args.hd_keypaths[n].path)].index)
        /\ ( \A p \in 1..Len(args.self.keys) : \A n \in 1..Len(args.hd_keypaths) :
                 IsWildcard(args.self.keys[p])
                     => ~GoodShape(args.self.keys[p], args.hd_keypaths[n]) )
               => ret.result = None

\* the table holds, under the fingerprint of the wildcard key, only paths
\* of another shape: the prefix alone, a longer path, a hardened step,
\* another prefix
C16_Witness ==
    /\ op = "derive_from_hd_keypaths"
    /\ IsWildcard(args.self.keys[1])
    /\ args.utxo = None
    /\ Len(args.hd_keypaths) >= 2
    /\ \A n \in 1..Len(args.hd_keypaths) :
           /\ args.hd_keypaths[n].fingerprint = RootOf(args.self.keys[1])
           /\ ~GoodShape(args.self.keys[1], args.hd_keypaths[n])
    /\ \E n \in 1..Len(args.hd_keypaths) :
           args.hd_keypaths[n].path = PrefixOf(args.self.keys[1]) \o <<Hardened(0)>>
    /\ ret.result = None

\* the tables that hold the key sources of the table t in another order
Reorderings(t) ==
    { [n \in 1..Len(t) |-> t[f[n]]] :
        f \in { g \in [1..Len(t) -> 1..Len(t)] :
                  \A a, b \in 1..Len(t) : a # b => g[a] # g[b] } }

\* C17: the result of derive_from_hd_keypaths depends only on the set of
\* (fingerprint, path) values of the table, not on the order in which the
\* table yields them.
C17_EvidenceOrderIndependence ==
    op = "derive_from_hd_keypaths" =>
        \A t \in Reorderings(args.hd_keypaths) :
            derive_from_hd_keypaths(args.self, t, args.utxo) = ret.result

\* C18: for every descriptor D with a wildcard key that
\* into_wallet_descriptor_checked accepts and every index i,
\* derive_from_hd_keypaths on the table get_hd_keypaths(as_derived(D, i))
\* returns a descriptor with the script_pubkey of as_derived(D, i), with
\* no utxo and with the output of index i as utxo.
C18_MatcherInvertsReconstructor ==
    (op = "derive_from_reconstructed" /\ HasWildcard(args.self))
        => /\ ret.result.some
           /\ script_pubkey(ret.result.value)
                  = script_pubkey(as_derived(args.self, args.index))

====
